---- MODULE Spec2Model ----
(***************************************************************************)
(* Model of the 2025 tax calculators: General-use-2025.py (federal and     *)
(* state engine over the TAX_DATA tables) and Federal-2025.py (the         *)
(* federal-only calculate_taxes).                                          *)
(*                                                                         *)
(* Arithmetic.  The programs compute in Python floats; the model computes  *)
(* the same expressions exactly, over integers:                            *)
(*   - incomes, bracket bounds, deductions and the wage cap are whole      *)
(*     dollars, and every income of the model is a multiple of MoneyStep   *)
(*     dollars (every bound of the tables is one);                         *)
(*   - a rate r is written as the integer r * RateDen (0.0145 is 145);     *)
(*   - a tax amount is a whole number of 1/TaxDen dollar, with             *)
(*     TaxDen = RateDen / MoneyStep, so that income * rate is exact and    *)
(*     the largest amount of the model stays below 2^31.                   *)
(***************************************************************************)
EXTENDS Integers, Sequences, FiniteSets, TLC

VARIABLES TAX_DATA, call, result, prev, first, shell

vars == <<TAX_DATA, call, result, prev, first, shell>>

----------------------------------------------------------------------------
(* Number representation *)

RateDen == 10000
MoneyStep == 5
TaxDen == RateDen \div MoneyStep

\* float('inf'): above every amount of the model; no arithmetic is done on it
inf == 2147483647

\* amount * rate, amount in dollars, the product in 1/TaxDen dollar
Times(amount, rate) == (amount * rate) \div MoneyStep

\* a dollar amount used where a tax amount is expected (fee, gross income)
Dollars(amount) == amount * TaxDen

min(a, b) == IF a <= b THEN a ELSE b
max(a, b) == IF a >= b THEN a ELSE b

----------------------------------------------------------------------------
(* General-use-2025.py: TAX_DATA *)

FEDERAL_SINGLE_BRACKETS ==
    << <<0, 11925, 1000>>, <<11925, 48475, 1200>>, <<48475, 103350, 2200>>,
       <<103350, 197300, 2400>>, <<197300, 250525, 3200>>, <<250525, inf, 3500>> >>

FEDERAL_JOINT_BRACKETS ==
    << <<0, 23850, 1000>>, <<23850, 96950, 1200>>, <<96950, 206700, 2200>>,
       <<206700, 394600, 2400>>, <<394600, 501050, 3200>>, <<501050, inf, 3500>> >>

MINNESOTA_SINGLE_BRACKETS ==
    << <<0, 32570, 535>>, <<32570, 106990, 680>>, <<106990, 198630, 785>>,
       <<198630, inf, 985>> >>

\* two digits of a bound exchanged: a gap between the second and third bracket
MINNESOTA_JOINT_BRACKETS_Gap ==
    << <<0, 47620, 535>>, <<47620, 189180, 680>>, <<189810, 330410, 785>>,
       <<330410, inf, 985>> >>

MINNESOTA_JOINT_BRACKETS ==
    << <<0, 47620, 535>>, <<47620, 189180, 680>>, <<189180, 330410, 785>>,
       <<330410, inf, 985>> >>

NO_TAX_STATES ==
    << "texas", "florida", "washington", "nevada", "alaska",
       "wyoming", "south_dakota", "tennessee", "new_hampshire" >>

TAX_DATA_INIT ==
    [ federal |->
        [ single  |-> [ standard_deduction |-> 15000,
                        brackets |-> FEDERAL_SINGLE_BRACKETS ],
          joint   |-> [ standard_deduction |-> 30000,
                        brackets |-> FEDERAL_JOINT_BRACKETS ],
          payroll |-> [ ss_cap |-> 176100, ss_rate |-> 620, medicare_rate |-> 145 ] ],
      states |->
        ( "no_tax_states" :> NO_TAX_STATES
       @@ "michigan" :>
            [ type |-> "flat", name |-> "Michigan", rate |-> 425,
              description |-> "Flat rate of 4.25%" ]
       @@ "pennsylvania" :>
            [ type |-> "flat", name |-> "Pennsylvania", rate |-> 307,
              description |-> "Flat rate of 3.07%" ]
       @@ "pennsylvania-philadelphia" :>
            [ type |-> "composite", name |-> "Pennsylvania - Philadelphia",
              state_rate |-> 307, local_rate |-> 375, total_rate |-> 682,
              description |-> "PA state tax (3.07%) + Philadelphia local tax (3.75%)" ]
       @@ "pennsylvania-pittsburgh" :>
            [ type |-> "composite", name |-> "Pennsylvania - Pittsburgh",
              state_rate |-> 307, local_rate |-> 300, total_rate |-> 607,
              flat_fee |-> 52,
              description |-> "PA state tax (3.07%) + Pittsburgh local tax (3%) + $52 fee" ]
       @@ "minnesota" :>
            [ type |-> "bracket", name |-> "Minnesota",
              single |-> [ standard_deduction |-> 14950,
                           brackets |-> MINNESOTA_SINGLE_BRACKETS ],
              joint  |-> [ standard_deduction |-> 29900,
                           brackets |-> MINNESOTA_JOINT_BRACKETS ],
              description |-> "Progressive tax with brackets based on filing status" ] ) ]

----------------------------------------------------------------------------
(* Python values *)

\* a call that returns value v, and a call that raises exception exc
Return(v) == [ok |-> TRUE, value |-> v]
Raise(exc, msg) == [ok |-> FALSE, error |-> exc, message |-> msg]

\* x in a Python list
InList(x, list) == \E i \in 1..Len(list) : list[i] = x

----------------------------------------------------------------------------
(* General-use-2025.py: calculate_bracket_tax *)

\* a bracket entered from its lower bound on
in_bracket_FromLower(taxable_income, lower) == taxable_income >= lower

\* "if taxable_income > lower": the bracket holds some of the income
in_bracket(taxable_income, lower) == taxable_income > lower

\* "=" written for "+="
add_tax_Overwrite(total_tax, tax_in_bracket) == tax_in_bracket

\* "total_tax += tax_in_bracket"
add_tax(total_tax, tax_in_bracket) == total_tax + tax_in_bracket

\* the income of the bracket stored as its tax
breakdown_entry_TaxIsIncome(lower, upper, rate, income_in_bracket, tax_in_bracket) ==
    [ bracket |-> IF upper # inf THEN <<lower, upper>> ELSE <<lower>>,
      rate    |-> <<rate, 2>>,
      income  |-> income_in_bracket,
      tax     |-> income_in_bracket ]

\* the dict appended to the breakdown; the two formatted strings are kept as
\* what they are formatted from: the bounds printed (one for "Over ..."), and
\* the rate with its number of decimals
breakdown_entry(lower, upper, rate, income_in_bracket, tax_in_bracket) ==
    [ bracket |-> IF upper # inf THEN <<lower, upper>> ELSE <<lower>>,
      rate    |-> <<rate, 2>>,
      income  |-> income_in_bracket,
      tax     |-> tax_in_bracket ]

\* the loop with an income on a bound put in the bracket above the bound:
\* ">=" for ">" on entering a bracket, "<" for "<=" on leaving the loop
RECURSIVE bracket_loop_UpperTie(_, _, _, _)
bracket_loop_UpperTie(taxable_income, brackets, i, acc) ==
    IF i > Len(brackets) THEN acc
    ELSE LET lower == brackets[i][1]
             upper == brackets[i][2]
             rate  == brackets[i][3]
         IN  IF taxable_income >= lower
             THEN LET income_in_bracket == min(taxable_income, upper) - lower
                      tax_in_bracket    == Times(income_in_bracket, rate)
                      acc2 == [ total     |-> add_tax(acc.total, tax_in_bracket),
                                breakdown |->
                                    Append(acc.breakdown,
                                           breakdown_entry(lower, upper, rate,
                                               income_in_bracket, tax_in_bracket)) ]
                  IN  IF taxable_income < upper
                      THEN acc2
                      ELSE bracket_loop_UpperTie(taxable_income, brackets, i + 1, acc2)
             ELSE bracket_loop_UpperTie(taxable_income, brackets, i + 1, acc)

\* the loop of calculate_bracket_tax from bracket i on; acc is
\* [total, breakdown] as accumulated by the earlier iterations
RECURSIVE bracket_loop(_, _, _, _)
bracket_loop(taxable_income, brackets, i, acc) ==
    IF i > Len(brackets) THEN acc
    ELSE LET lower == brackets[i][1]
             upper == brackets[i][2]
             rate  == brackets[i][3]
         IN  IF in_bracket(taxable_income, lower)
             THEN LET income_in_bracket == min(taxable_income, upper) - lower
                      tax_in_bracket    == Times(income_in_bracket, rate)
                      acc2 == [ total     |-> add_tax(acc.total, tax_in_bracket),
                                breakdown |->
                                    Append(acc.breakdown,
                                           breakdown_entry(lower, upper, rate,
                                               income_in_bracket, tax_in_bracket)) ]
                  IN  IF taxable_income <= upper
                      THEN acc2
                      ELSE bracket_loop(taxable_income, brackets, i + 1, acc2)
             ELSE bracket_loop(taxable_income, brackets, i + 1, acc)

calculate_bracket_tax(taxable_income, brackets) ==
    bracket_loop(taxable_income, brackets, 1, [total |-> 0, breakdown |-> <<>>])

----------------------------------------------------------------------------
(* Strings: str.lower() and str.upper() on the jurisdiction codes of the model *)

StrCase ==
    ( ""              :> <<"", "">>
   @@ "texas"         :> <<"texas", "TEXAS">>
   @@ "TEXAS"         :> <<"texas", "TEXAS">>
   @@ "michigan"      :> <<"michigan", "MICHIGAN">>
   @@ "Michigan"      :> <<"michigan", "MICHIGAN">>
   @@ "pennsylvania"  :> <<"pennsylvania", "PENNSYLVANIA">>
   @@ "pennsylvania-philadelphia" :>
          <<"pennsylvania-philadelphia", "PENNSYLVANIA-PHILADELPHIA">>
   @@ "pennsylvania-pittsburgh" :>
          <<"pennsylvania-pittsburgh", "PENNSYLVANIA-PITTSBURGH">>
   @@ "minnesota"     :> <<"minnesota", "MINNESOTA">>
   @@ "foo"           :> <<"foo", "FOO">>
   @@ "no_tax_states" :> <<"no_tax_states", "NO_TAX_STATES">>
   @@ "florida"       :> <<"florida", "FLORIDA">>
   @@ "washington"    :> <<"washington", "WASHINGTON">>
   @@ "nevada"        :> <<"nevada", "NEVADA">>
   @@ "alaska"        :> <<"alaska", "ALASKA">>
   @@ "wyoming"       :> <<"wyoming", "WYOMING">>
   @@ "south_dakota"  :> <<"south_dakota", "SOUTH_DAKOTA">>
   @@ "tennessee"     :> <<"tennessee", "TENNESSEE">>
   @@ "new_hampshire" :> <<"new_hampshire", "NEW_HAMPSHIRE">>
   @@ "q"             :> <<"q", "Q">>
   @@ "Q"             :> <<"q", "Q">>
   @@ "y"             :> <<"y", "Y">>
   @@ "Y"             :> <<"y", "Y">>
   @@ "n"             :> <<"n", "N">>
   @@ "abc"           :> <<"abc", "ABC">> )

\* the strings outside the table are made of digits: no cased character
lower(s) == IF s \in DOMAIN StrCase THEN StrCase[s][1] ELSE s
upper(s) == IF s \in DOMAIN StrCase THEN StrCase[s][2] ELSE s

\* the values of TAX_DATA["states"] that are dicts: every one but the list
\* of no-tax states (a list subscripted by a str raises TypeError)
IsDict(key) == key # "no_tax_states"

\* the fields of a jurisdiction entry that hold a str, not a dict
StrFields == {"type", "name", "description"}

\* dict.get(key, default)
Get(dict, key, default) == IF key \in DOMAIN dict THEN dict[key] ELSE default

\* (tax / total_income) * 100, in hundredths of a percent, rounded down
Percent(tax, total_income) ==
    (tax \div total_income) * MoneyStep
        + ((tax % total_income) * MoneyStep) \div total_income

\* the division made whatever the total income is
effective_rate_Unguarded(tax, total_income) ==
    IF total_income = 0
    THEN Raise("ZeroDivisionError", "float division by zero")
    ELSE IF total_income > 0
    THEN Return(Percent(tax, total_income))
    ELSE Return(0 - Percent(tax, 0 - total_income))

\* "(tax / total_income) * 100 if total_income > 0 else 0": the rate, or
\* the exception a division raises
effective_rate(tax, total_income) ==
    IF total_income > 0 THEN Return(Percent(tax, total_income)) ELSE Return(0)

----------------------------------------------------------------------------
(* General-use-2025.py: calculate_federal_tax *)

\* the cap applied to the two incomes together
social_security_CombinedCap(income1, income2, ss_cap, ss_rate) ==
    LET ss_tax1 == Times(min(income1, ss_cap), ss_rate)
        ss_tax2 == Times(min(income2, ss_cap), ss_rate)
    IN  [ ss_tax1 |-> ss_tax1, ss_tax2 |-> ss_tax2,
          ss_tax_total |-> Times(min(income1 + income2, ss_cap), ss_rate) ]

\* Social Security (capped at wage base limit per person)
social_security(income1, income2, ss_cap, ss_rate) ==
    LET ss_tax1 == Times(min(income1, ss_cap), ss_rate)
        ss_tax2 == Times(min(income2, ss_cap), ss_rate)
    IN  [ ss_tax1 |-> ss_tax1, ss_tax2 |-> ss_tax2,
          ss_tax_total |-> ss_tax1 + ss_tax2 ]

\* Medicare computed on the income left by the standard deduction
medicare_AfterDeduction(income1, income2, medicare_rate) ==
    LET deduction == TAX_DATA.federal.single.standard_deduction
        medicare_tax1 == Times(max(0, income1 - deduction), medicare_rate)
        medicare_tax2 == Times(max(0, income2 - deduction), medicare_rate)
    IN  [ medicare_tax1 |-> medicare_tax1, medicare_tax2 |-> medicare_tax2,
          medicare_tax_total |-> medicare_tax1 + medicare_tax2 ]

\* Medicare (no income cap)
medicare(income1, income2, medicare_rate) ==
    LET medicare_tax1 == Times(income1, medicare_rate)
        medicare_tax2 == Times(income2, medicare_rate)
    IN  [ medicare_tax1 |-> medicare_tax1, medicare_tax2 |-> medicare_tax2,
          medicare_tax_total |-> medicare_tax1 + medicare_tax2 ]

calculate_federal_tax(income1, income2, filing_status) ==
    IF filing_status \notin {"single", "joint"}
    THEN Raise("ValueError", "Invalid filing status")
    ELSE
    LET fed_data == TAX_DATA.federal[filing_status]
        standard_deduction == fed_data.standard_deduction
        brackets == fed_data.brackets
        total_income == income1 + income2
        taxable_income == max(0, total_income - standard_deduction)
        income_tax_result == calculate_bracket_tax(taxable_income, brackets)
        income_tax == income_tax_result.total
        bracket_breakdown == income_tax_result.breakdown
        ss_cap == TAX_DATA.federal.payroll.ss_cap
        ss_rate == TAX_DATA.federal.payroll.ss_rate
        medicare_rate == TAX_DATA.federal.payroll.medicare_rate
        ss == social_security(income1, income2, ss_cap, ss_rate)
        ss_tax1 == ss.ss_tax1
        ss_tax2 == ss.ss_tax2
        ss_tax_total == ss.ss_tax_total
        mc == medicare(income1, income2, medicare_rate)
        medicare_tax1 == mc.medicare_tax1
        medicare_tax2 == mc.medicare_tax2
        medicare_tax_total == mc.medicare_tax_total
        payroll_tax == ss_tax_total + medicare_tax_total
        total_federal_tax == income_tax + payroll_tax
        rate == effective_rate(total_federal_tax, total_income)
        res == [ filing_status |-> filing_status,
                 gross_income |-> total_income,
                 standard_deduction |-> standard_deduction,
                 taxable_income |-> taxable_income,
                 income_tax |-> income_tax,
                 bracket_breakdown |-> bracket_breakdown,
                 social_security |-> [ rate |-> ss_rate, cap |-> ss_cap,
                                       tax |-> ss_tax_total ],
                 medicare |-> [ rate |-> medicare_rate, tax |-> medicare_tax_total ],
                 payroll_tax |-> payroll_tax,
                 total_tax |-> total_federal_tax,
                 effective_rate |-> rate.value ]
        details == [ income1 |-> income1, income2 |-> income2,
                     social_security_tax1 |-> ss_tax1,
                     social_security_tax2 |-> ss_tax2,
                     medicare_tax1 |-> medicare_tax1,
                     medicare_tax2 |-> medicare_tax2 ]
    IN  IF ~rate.ok THEN rate
        ELSE Return(IF filing_status = "joint" THEN details @@ res ELSE res)

----------------------------------------------------------------------------
(* General-use-2025.py: calculate_state_tax *)

\* the fee charged only where the rates give a tax
composite_total_FeeIfTaxed(state_portion, local_portion, flat_fee) ==
    state_portion + local_portion
        + (IF state_portion + local_portion > 0 THEN Dollars(flat_fee) ELSE 0)

\* "total_state_tax = state_portion + local_portion + flat_fee"
composite_total(state_portion, local_portion, flat_fee) ==
    state_portion + local_portion + Dollars(flat_fee)

calculate_state_tax(income1, income2, filing_status, state_code) ==
    LET total_income == income1 + income2
        states == TAX_DATA.states
    IN
    IF state_code = "" \/ InList(lower(state_code), states["no_tax_states"])
    THEN Return([ state |-> IF state_code # "" THEN upper(state_code)
                                               ELSE "No State Tax",
                  tax |-> 0,
                  effective_rate |-> 0,
                  description |-> "No state income tax" ])
    ELSE IF lower(state_code) \notin DOMAIN states
    THEN Raise("ValueError", "Unsupported state")
    ELSE IF ~IsDict(lower(state_code))
    THEN Raise("TypeError", "list indices must be integers or slices, not str")
    ELSE
    LET state_data == states[lower(state_code)]
        state_name == state_data.name
    IN
    IF state_data.type = "flat"
    THEN LET state_tax == Times(total_income, state_data.rate)
             flat_fee == Get(state_data, "flat_fee", 0)
             total_state_tax == state_tax + Dollars(flat_fee)
             rate == effective_rate(total_state_tax, total_income)
         IN  IF ~rate.ok THEN rate ELSE
             Return([ state |-> state_name,
                      type |-> "flat",
                      rate |-> state_data.rate,
                      tax |-> total_state_tax,
                      flat_fee |-> flat_fee,
                      effective_rate |-> rate.value,
                      description |-> state_data.description ])
    ELSE IF state_data.type = "composite"
    THEN LET state_portion == Times(total_income, state_data.state_rate)
             local_portion == Times(total_income, state_data.local_rate)
             flat_fee == Get(state_data, "flat_fee", 0)
             total_state_tax == composite_total(state_portion, local_portion, flat_fee)
             rate == effective_rate(total_state_tax, total_income)
         IN  IF ~rate.ok THEN rate ELSE
             Return([ state |-> state_name,
                      type |-> "composite",
                      state_rate |-> state_data.state_rate,
                      local_rate |-> state_data.local_rate,
                      state_portion |-> state_portion,
                      local_portion |-> local_portion,
                      total_rate |-> state_data.total_rate,
                      tax |-> total_state_tax,
                      flat_fee |-> flat_fee,
                      effective_rate |-> rate.value,
                      description |-> state_data.description ])
    ELSE IF state_data.type = "bracket"
    THEN LET filing_key == IF filing_status \in DOMAIN state_data
                           THEN filing_status ELSE "single"
         IN
         IF filing_key \in StrFields
         THEN Raise("TypeError", "string indices must be integers, not 'str'")
         ELSE
         LET filing_data == state_data[filing_key]
             standard_deduction == filing_data.standard_deduction
             taxable_income == max(0, total_income - standard_deduction)
             tax_result == calculate_bracket_tax(taxable_income, filing_data.brackets)
             state_tax == tax_result.total
             bracket_breakdown == tax_result.breakdown
             rate == effective_rate(state_tax, total_income)
         IN  IF ~rate.ok THEN rate ELSE
             Return([ state |-> state_name,
                      type |-> "bracket",
                      standard_deduction |-> standard_deduction,
                      taxable_income |-> taxable_income,
                      tax |-> state_tax,
                      bracket_breakdown |-> bracket_breakdown,
                      effective_rate |-> rate.value,
                      description |-> state_data.description ])
    ELSE Raise("ValueError", "Unknown state tax type")

----------------------------------------------------------------------------
(* General-use-2025.py: what a call leaves in TAX_DATA *)

\* the fee taken out of the entry by the read: state_data.pop("flat_fee", 0)
flat_fee_read_Pop(state_data) ==
    [ k \in DOMAIN state_data \ {"flat_fee"} |-> state_data[k] ]

\* the entry after "flat_fee = state_data.get('flat_fee', 0)": get reads
flat_fee_read(state_data) == state_data

\* TAX_DATA after calculate_state_tax: the flat and the composite branch
\* read the fee of the entry; every other statement subscripts the tables
\* and assigns to locals
state_tax_tables(income1, income2, filing_status, state_code) ==
    LET states == TAX_DATA.states
    IN
    IF state_code = "" \/ InList(lower(state_code), states["no_tax_states"])
    THEN TAX_DATA
    ELSE IF lower(state_code) \notin DOMAIN states \/ ~IsDict(lower(state_code))
    THEN TAX_DATA
    ELSE IF states[lower(state_code)].type \in {"flat", "composite"}
    THEN [TAX_DATA EXCEPT !.states[lower(state_code)] = flat_fee_read(@)]
    ELSE TAX_DATA

\* TAX_DATA after calculate_total_tax: calculate_federal_tax assigns to
\* locals only, and calculate_state_tax is reached if it returns
total_tax_tables(income1, income2, filing_status, state_code) ==
    IF calculate_federal_tax(income1, income2, filing_status).ok
    THEN state_tax_tables(income1, income2, filing_status, state_code)
    ELSE TAX_DATA

----------------------------------------------------------------------------
(* General-use-2025.py: calculate_total_tax *)

\* the state tax left out of the combined total
combined_result_FederalOnly(federal, state) ==
    LET total_tax == federal.total_tax
        total_income == federal.gross_income
        take_home == Dollars(total_income) - total_tax
        rate == effective_rate(total_tax, total_income)
    IN  IF ~rate.ok THEN rate ELSE
        Return([ federal |-> federal,
          state |-> state,
          total_tax |-> total_tax,
          total_income |-> total_income,
          take_home |-> take_home,
          effective_rate |-> rate.value ])

\* the combined totals and the dict returned, from the two dicts
combined_result(federal, state) ==
    LET total_tax == federal.total_tax + state.tax
        total_income == federal.gross_income
        take_home == Dollars(total_income) - total_tax
        rate == effective_rate(total_tax, total_income)
    IN  IF ~rate.ok THEN rate ELSE
        Return([ federal |-> federal,
          state |-> state,
          total_tax |-> total_tax,
          total_income |-> total_income,
          take_home |-> take_home,
          effective_rate |-> rate.value ])

\* the jurisdiction looked at before the filing status
calculate_total_tax_StateFirst(income1, income2, filing_status, state_code) ==
    LET state == calculate_state_tax(income1, income2, filing_status, state_code)
    IN
    IF ~state.ok THEN state
    ELSE
    LET federal == calculate_federal_tax(income1, income2, filing_status)
    IN
    IF ~federal.ok THEN federal
    ELSE combined_result(federal.value, state.value)

\* an exception raised by either call leaves calculate_total_tax at once
calculate_total_tax(income1, income2, filing_status, state_code) ==
    LET federal == calculate_federal_tax(income1, income2, filing_status)
    IN
    IF ~federal.ok THEN federal
    ELSE
    LET state == calculate_state_tax(income1, income2, filing_status, state_code)
    IN
    IF ~state.ok THEN state
    ELSE combined_result(federal.value, state.value)

----------------------------------------------------------------------------
(* Federal-2025.py: calculate_taxes *)

TAX_CONSTANTS ==
    [ single |-> [ standard_deduction |-> 15000,
                   brackets |->
                     << <<0, 11925, 1000>>, <<11925, 48475, 1200>>,
                        <<48475, 103350, 2200>>, <<103350, 197300, 2400>>,
                        <<197300, 250525, 3200>>, <<250525, inf, 3500>> >> ],
      joint  |-> [ standard_deduction |-> 30000,
                   brackets |->
                     << <<0, 23850, 1000>>, <<23850, 96950, 1200>>,
                        <<96950, 206700, 2200>>, <<206700, 394600, 2400>>,
                        <<394600, 501050, 3200>>, <<501050, inf, 3500>> >> ] ]

\* the wage base limit of the year before
SS_CAP_LastYear == 176100 - 7500

SS_CAP == 176100
SS_RATE == 620
MC_RATE == 145

\* the bracket loop of calculate_taxes from bracket i on; acc is
\* [income_tax, bracket_breakdown] as accumulated by the earlier iterations
RECURSIVE taxes_bracket_loop(_, _, _, _)
taxes_bracket_loop(taxable_income, brackets, i, acc) ==
    IF i > Len(brackets) THEN acc
    ELSE LET lower_limit == brackets[i][1]
             upper_limit == brackets[i][2]
             rate        == brackets[i][3]
         IN  IF taxable_income > lower_limit
             THEN LET bracket_income == min(taxable_income, upper_limit) - lower_limit
                      bracket_tax    == Times(bracket_income, rate)
                      entry == [ bracket |-> IF upper_limit # inf
                                             THEN <<lower_limit, upper_limit>>
                                             ELSE <<lower_limit>>,
                                 rate |-> <<rate, 1>>,
                                 income_in_bracket |-> bracket_income,
                                 tax_for_bracket |-> bracket_tax ]
                      acc2 == [ income_tax |-> acc.income_tax + bracket_tax,
                                bracket_breakdown |->
                                    Append(acc.bracket_breakdown, entry) ]
                  IN  IF taxable_income <= upper_limit
                      THEN acc2
                      ELSE taxes_bracket_loop(taxable_income, brackets, i + 1, acc2)
             ELSE taxes_bracket_loop(taxable_income, brackets, i + 1, acc)

calculate_taxes(income1, income2_arg, filing_status) ==
    IF filing_status \notin DOMAIN TAX_CONSTANTS
    THEN Raise("ValueError", "Invalid filing status")
    ELSE
    LET STANDARD_DEDUCTION == TAX_CONSTANTS[filing_status].standard_deduction
        brackets == TAX_CONSTANTS[filing_status].brackets
        total_income == IF filing_status = "single" THEN income1
                                                    ELSE income1 + income2_arg
        income2 == IF filing_status = "single" THEN 0 ELSE income2_arg
        taxable_income == max(0, total_income - STANDARD_DEDUCTION)
        loop == taxes_bracket_loop(taxable_income, brackets, 1,
                                   [income_tax |-> 0, bracket_breakdown |-> <<>>])
        income_tax == loop.income_tax
        bracket_breakdown == loop.bracket_breakdown
        ss_tax1 == Times(min(income1, SS_CAP), SS_RATE)
        ss_tax2 == IF income2 > 0 THEN Times(min(income2, SS_CAP), SS_RATE) ELSE 0
        total_ss_tax == ss_tax1 + ss_tax2
        mc_tax1 == Times(income1, MC_RATE)
        mc_tax2 == IF income2 > 0 THEN Times(income2, MC_RATE) ELSE 0
        total_mc_tax == mc_tax1 + mc_tax2
        total_tax == income_tax + total_ss_tax + total_mc_tax
        rate == effective_rate(total_tax, total_income)
        res == [ filing_status |-> filing_status,
                 gross_income |-> total_income,
                 standard_deduction |-> STANDARD_DEDUCTION,
                 taxable_income |-> taxable_income,
                 income_tax |-> income_tax,
                 social_security_tax |-> total_ss_tax,
                 medicare_tax |-> total_mc_tax,
                 total_tax |-> total_tax,
                 take_home_pay |-> Dollars(total_income) - total_tax,
                 effective_tax_rate |-> rate.value,
                 bracket_breakdown |-> bracket_breakdown ]
        spouses == [ spouse1_income |-> income1, spouse2_income |-> income2,
                     ss_tax_spouse1 |-> ss_tax1, ss_tax_spouse2 |-> ss_tax2,
                     mc_tax_spouse1 |-> mc_tax1, mc_tax_spouse2 |-> mc_tax2 ]
        person == [ ss_tax_person |-> ss_tax1, mc_tax_person |-> mc_tax1 ]
    IN  IF ~rate.ok THEN rate
        ELSE Return(IF filing_status = "joint" THEN spouses @@ res ELSE person @@ res)

----------------------------------------------------------------------------
(* Floats that are not numbers: float("nan") through the engine *)

\* float("nan"); no arithmetic is done on it but by the operators below
nan == 0 - 2147483647

\* a < b on floats: every comparison with nan is False
lt(a, b) == a # nan /\ b # nan /\ a < b

\* a + b on floats
add(a, b) == IF a = nan \/ b = nan THEN nan ELSE a + b

\* income * rate on floats
times(income, rate) == IF income = nan THEN nan ELSE Times(income, rate)

\* min(income, cap): nan when income is, no cap being < nan
capped(income, cap) == IF income = nan THEN nan ELSE min(income, cap)

\* calculate_federal_tax when an income is nan: total_income is nan,
\* max(0, nan - standard_deduction) is 0, so no bracket is entered; the payroll
\* taxes of the nan income, and every sum they are part of, are nan; the test
\* total_income > 0 is False
federal_tax_nan(zero, income1, income2, filing_status) ==
    LET ss_cap == TAX_DATA.federal.payroll.ss_cap
        ss_rate == TAX_DATA.federal.payroll.ss_rate
        medicare_rate == TAX_DATA.federal.payroll.medicare_rate
        ss_tax1 == times(capped(income1, ss_cap), ss_rate)
        ss_tax2 == times(capped(income2, ss_cap), ss_rate)
        medicare_tax1 == times(income1, medicare_rate)
        medicare_tax2 == times(income2, medicare_rate)
        ss_tax_total == add(ss_tax1, ss_tax2)
        medicare_tax_total == add(medicare_tax1, medicare_tax2)
        payroll_tax == add(ss_tax_total, medicare_tax_total)
        res == [ zero.value EXCEPT
                   !.gross_income = add(income1, income2),
                   !.social_security.tax = ss_tax_total,
                   !.medicare.tax = medicare_tax_total,
                   !.payroll_tax = payroll_tax,
                   !.total_tax = add(zero.value.income_tax, payroll_tax) ]
    IN  IF ~zero.ok THEN zero
        ELSE IF filing_status = "joint"
        THEN Return([ res EXCEPT !.income1 = income1, !.income2 = income2,
                                 !.social_security_tax1 = ss_tax1,
                                 !.social_security_tax2 = ss_tax2,
                                 !.medicare_tax1 = medicare_tax1,
                                 !.medicare_tax2 = medicare_tax2 ])
        ELSE Return(res)

\* zero: what calculate_federal_tax returns where no bracket is entered
calculate_federal_tax_nan(income1, income2, filing_status) ==
    federal_tax_nan(calculate_federal_tax(0, 0, filing_status),
                    income1, income2, filing_status)

\* calculate_state_tax when an income is nan: the products of the total
\* income are nan; the taxable income of a bracket jurisdiction is
\* max(0, nan - standard_deduction) = 0
state_tax_nan(zero) ==
        IF ~zero.ok THEN zero
        ELSE IF "type" \notin DOMAIN zero.value \/ zero.value.type = "bracket"
        THEN zero
        ELSE IF zero.value.type = "composite"
        THEN Return([ zero.value EXCEPT !.state_portion = nan,
                                        !.local_portion = nan, !.tax = nan ])
        ELSE Return([ zero.value EXCEPT !.tax = nan ])

calculate_state_tax_nan(income1, income2, filing_status, state_code) ==
    state_tax_nan(calculate_state_tax(0, 0, filing_status, state_code))

\* calculate_total_tax when an income is nan
total_tax_nan(federal, state) ==
    IF ~federal.ok THEN federal
    ELSE IF ~state.ok THEN state
    ELSE Return([ federal |-> federal.value,
                  state |-> state.value,
                  total_tax |-> add(federal.value.total_tax, state.value.tax),
                  total_income |-> federal.value.gross_income,
                  take_home |-> nan,
                  effective_rate |-> 0 ])

calculate_total_tax_nan(income1, income2, filing_status, state_code) ==
    total_tax_nan(
        calculate_federal_tax_nan(income1, income2, filing_status),
        calculate_state_tax_nan(income1, income2, filing_status, state_code))

\* calculate_taxes when an income is nan: as calculate_federal_tax, but the
\* payroll taxes of a second income that is nan are 0 ("if income2 > 0 else
\* 0"), and take_home_pay is nan - total_tax
taxes_nan(zero, income1, income2, filing_status) ==
    LET ss_tax1 == times(capped(income1, SS_CAP), SS_RATE)
        ss_tax2 == IF lt(0, income2) THEN Times(min(income2, SS_CAP), SS_RATE) ELSE 0
        mc_tax1 == times(income1, MC_RATE)
        mc_tax2 == IF lt(0, income2) THEN Times(income2, MC_RATE) ELSE 0
        total_ss_tax == add(ss_tax1, ss_tax2)
        total_mc_tax == add(mc_tax1, mc_tax2)
        res == [ zero.value EXCEPT
                   !.gross_income = add(income1, income2),
                   !.social_security_tax = total_ss_tax,
                   !.medicare_tax = total_mc_tax,
                   !.total_tax = add(add(zero.value.income_tax, total_ss_tax),
                                     total_mc_tax),
                   !.take_home_pay = nan ]
    IN  IF ~zero.ok THEN zero
        ELSE IF filing_status = "joint"
        THEN Return([ res EXCEPT !.spouse1_income = income1,
                                 !.spouse2_income = income2,
                                 !.ss_tax_spouse1 = ss_tax1,
                                 !.ss_tax_spouse2 = ss_tax2,
                                 !.mc_tax_spouse1 = mc_tax1,
                                 !.mc_tax_spouse2 = mc_tax2 ])
        ELSE Return([ res EXCEPT !.ss_tax_person = ss_tax1,
                                 !.mc_tax_person = mc_tax1 ])

\* "income2 = 0" of the single status, and zero as above
calculate_taxes_nan(income1, income2_arg, filing_status) ==
    taxes_nan(calculate_taxes(0, 0, filing_status), income1,
              IF filing_status = "single" THEN 0 ELSE income2_arg,
              filing_status)

----------------------------------------------------------------------------
(* General-use-2025.py: get_state_options and display_tax_report *)

\* the keys of TAX_DATA["states"] in the order items() yields them
STATES_KEYS ==
    << "no_tax_states", "michigan", "pennsylvania", "pennsylvania-philadelphia",
       "pennsylvania-pittsburgh", "minnesota" >>

\* state.replace("_", " ").title()
Title ==
    ( "texas" :> "Texas" @@ "florida" :> "Florida"
   @@ "washington" :> "Washington" @@ "nevada" :> "Nevada"
   @@ "alaska" :> "Alaska" @@ "wyoming" :> "Wyoming"
   @@ "south_dakota" :> "South Dakota" @@ "tennessee" :> "Tennessee"
   @@ "new_hampshire" :> "New Hampshire" )

\* the names the display names of the options start with, in the order str
\* comparison gives the display names ("Pennsylvania (" < "Pennsylvania -")
OptionNamesInOrder ==
    << "Alaska", "Federal Only", "Florida", "Michigan", "Minnesota", "Nevada",
       "New Hampshire", "Pennsylvania", "Pennsylvania - Philadelphia",
       "Pennsylvania - Pittsburgh", "South Dakota", "Tennessee", "Texas",
       "Washington", "Wyoming" >>

NameRank(name) ==
    CHOOSE i \in 1..Len(OptionNamesInOrder) : OptionNamesInOrder[i] = name

\* the (code, name) pairs: federal only, the no-tax states, then the entries
\* of the states table but the list of no-tax states, sorted by display name
get_state_options ==
    LET states == TAX_DATA.states
        no_tax == states["no_tax_states"]
        no_tax_options == [ i \in 1..Len(no_tax) |-> <<no_tax[i], Title[no_tax[i]]>> ]
        codes == SelectSeq(STATES_KEYS,
                           LAMBDA code :
                               /\ code # "no_tax_states"
                               /\ states[code].type \in {"flat", "composite", "bracket"})
        tax_options == [ i \in 1..Len(codes) |-> <<codes[i], states[codes[i]].name>> ]
        options == << <<"", "Federal Only">> >> \o no_tax_options \o tax_options
    IN  SortSeq(options, LAMBDA a, b : NameRank(a[2]) < NameRank(b[2]))

\* the keys display_tax_report subscripts the federal dict with
federal_keys_read(federal) ==
    { "filing_status", "gross_income", "standard_deduction", "taxable_income",
      "bracket_breakdown", "income_tax", "social_security", "payroll_tax",
      "total_tax", "effective_rate" }
      \cup (IF federal.filing_status = "joint"
            THEN { "income1", "income2", "social_security_tax1", "medicare_tax1",
                   "social_security_tax2", "medicare_tax2" }
            ELSE { "medicare" })

\* the state section printed whatever the state tax is
state_keys_read_NoTaxTest(state) ==
    { "state", "tax", "type", "effective_rate" }

\* the keys display_tax_report subscripts the state dict with: the section
\* of the tax type is printed unless state["tax"] == 0
state_keys_read(state) ==
    { "state", "tax" }
      \cup (IF state.tax = 0 THEN {}
            ELSE IF "type" \notin DOMAIN state THEN { "type" }
            ELSE { "type", "effective_rate" }
                   \cup (CASE state.type = "flat" ->
                                { "rate" }
                                    \cup (IF Get(state, "flat_fee", 0) > 0
                                          THEN { "flat_fee" } ELSE {})
                           [] state.type = "composite" ->
                                { "state_rate", "state_portion", "local_rate",
                                  "local_portion", "total_rate" }
                                    \cup (IF Get(state, "flat_fee", 0) > 0
                                          THEN { "flat_fee" } ELSE {})
                           [] state.type = "bracket" ->
                                { "standard_deduction", "taxable_income",
                                  "bracket_breakdown" }
                           [] OTHER -> {}))

\* the keys read of each line of a bracket breakdown
breakdown_keys_read == { "bracket", "rate", "income", "tax" }

\* every key subscripted is a key of the dict subscripted
ReadsPresent(tax_data) ==
    /\ { "federal", "state", "total_income", "total_tax", "take_home",
         "effective_rate" } \subseteq DOMAIN tax_data
    /\ federal_keys_read(tax_data.federal) \subseteq DOMAIN tax_data.federal
    /\ { "cap", "rate" } \subseteq DOMAIN tax_data.federal.social_security
    /\ tax_data.federal.filing_status # "joint" =>
         /\ "tax" \in DOMAIN tax_data.federal.social_security
         /\ "tax" \in DOMAIN tax_data.federal.medicare
    /\ \A i \in 1..Len(tax_data.federal.bracket_breakdown) :
         breakdown_keys_read \subseteq DOMAIN tax_data.federal.bracket_breakdown[i]
    /\ state_keys_read(tax_data.state) \subseteq DOMAIN tax_data.state
    /\ "bracket_breakdown" \in state_keys_read(tax_data.state) =>
         \A i \in 1..Len(tax_data.state.bracket_breakdown) :
           breakdown_keys_read \subseteq DOMAIN tax_data.state.bracket_breakdown[i]

\* display_tax_report: the report printed, or the KeyError of a subscript
display_tax_report(tax_data) ==
    IF ReadsPresent(tax_data)
    THEN Return("None")
    ELSE Raise("KeyError", "key")

----------------------------------------------------------------------------
(* The calls made on the engine *)

\* how far around each bracket bound, in steps of MoneyStep, incomes are drawn
MaxOffset == 1

Offsets == { d * MoneyStep : d \in (0 - MaxOffset)..MaxOffset }

\* the bracket tables of the two programs
BracketTables ==
    { TAX_DATA_INIT.federal.single.brackets, TAX_DATA_INIT.federal.joint.brackets,
      TAX_DATA_INIT.states["minnesota"].single.brackets,
      TAX_DATA_INIT.states["minnesota"].joint.brackets,
      TAX_CONSTANTS.single.brackets, TAX_CONSTANTS.joint.brackets }

\* the finite bounds of a bracket table
Bounds(brackets) ==
    { brackets[i][2] : i \in { j \in 1..Len(brackets) : brackets[j][2] # inf } }

\* taxable incomes: zero, and those on and around each bound of the table
TaxableIncomes(brackets) ==
    {0, MoneyStep} \cup { b + o : b \in Bounds(brackets), o \in Offsets }

\* first incomes of the federal calls: negative, zero, below the deduction,
\* and the incomes that put the taxable income on and around a bracket bound
FederalIncomes ==
    {-1000, 0, 10000}
      \cup UNION { { TAX_CONSTANTS[fs].standard_deduction + t :
                       t \in TaxableIncomes(TAX_CONSTANTS[fs].brackets) } :
                   fs \in {"single", "joint"} }

\* incomes of the calls with a jurisdiction
Incomes == {-1000, 0, 50000, 80000, 100000, 176100, 200000}

SecondIncomes == {-1000, 0, 60000, 100000, 200000}

FilingStatuses == {"single", "joint", "married", "payroll", "name"}

StateCodes ==
    { "", "texas", "TEXAS", "michigan", "Michigan", "pennsylvania",
      "pennsylvania-philadelphia", "pennsylvania-pittsburgh", "minnesota",
      "foo", "no_tax_states" }

NoCall == [fn |-> "none"]
NoResult == [ok |-> TRUE, value |-> "None"]

\* incomes of the first call of a run that is kept to be compared
FirstIncomes == {0, 50000}

\* the first call of a run is kept with its result when it names a
\* jurisdiction, has one income, and that income is in FirstIncomes
Kept(c) ==
    /\ c.fn \in {"calculate_state_tax", "calculate_total_tax"}
    /\ c.income1 \in FirstIncomes
    /\ c.income2 = 0

NoFirst == [made |-> "none"]

\* no interactive loop is running: the engine is called as a library
NoShell == [prog |-> "none"]

Init ==
    /\ TAX_DATA = TAX_DATA_INIT
    /\ call = NoCall
    /\ result = NoResult
    /\ prev = NoCall
    /\ first = NoFirst
    /\ shell = NoShell

\* The programs are single-threaded and the engine is synchronous: a call is
\* made when no call is in progress.  A call action is the whole call; it
\* leaves the arguments in call and the outcome in result.

Call_calculate_federal_tax ==
    /\ call = NoCall
    /\ \E income1 \in FederalIncomes, income2 \in SecondIncomes,
          filing_status \in FilingStatuses :
        /\ call' = [ fn |-> "calculate_federal_tax", income1 |-> income1,
                     income2 |-> income2, filing_status |-> filing_status ]
        /\ result' = calculate_federal_tax(income1, income2, filing_status)
    /\ UNCHANGED <<TAX_DATA, prev, first, shell>>

Call_calculate_state_tax ==
    /\ call = NoCall
    /\ \E income1 \in Incomes, income2 \in SecondIncomes,
          filing_status \in FilingStatuses, state_code \in StateCodes :
        /\ call' = [ fn |-> "calculate_state_tax", income1 |-> income1,
                     income2 |-> income2, filing_status |-> filing_status,
                     state_code |-> state_code ]
        /\ result' = calculate_state_tax(income1, income2, filing_status, state_code)
        /\ TAX_DATA' = state_tax_tables(income1, income2, filing_status, state_code)
    /\ UNCHANGED <<prev, first, shell>>

Call_calculate_total_tax ==
    /\ call = NoCall
    /\ \E income1 \in Incomes, income2 \in SecondIncomes,
          filing_status \in FilingStatuses, state_code \in StateCodes :
        /\ call' = [ fn |-> "calculate_total_tax", income1 |-> income1,
                     income2 |-> income2, filing_status |-> filing_status,
                     state_code |-> state_code ]
        /\ result' = calculate_total_tax(income1, income2, filing_status, state_code)
        /\ TAX_DATA' = total_tax_tables(income1, income2, filing_status, state_code)
    /\ UNCHANGED <<prev, first, shell>>

Call_calculate_taxes ==
    /\ call = NoCall
    /\ \E income1 \in FederalIncomes, income2 \in SecondIncomes,
          filing_status \in FilingStatuses :
        /\ call' = [ fn |-> "calculate_taxes", income1 |-> income1,
                     income2 |-> income2, filing_status |-> filing_status ]
        /\ result' = calculate_taxes(income1, income2, filing_status)
    /\ UNCHANGED <<TAX_DATA, prev, first, shell>>

Call_calculate_bracket_tax ==
    /\ call = NoCall
    /\ \E brackets \in BracketTables :
        \E taxable_income \in TaxableIncomes(brackets) :
          /\ call' = [ fn |-> "calculate_bracket_tax",
                       taxable_income |-> taxable_income, brackets |-> brackets ]
          /\ result' = Return(calculate_bracket_tax(taxable_income, brackets))
    /\ UNCHANGED <<TAX_DATA, prev, first, shell>>

\* The caller is done with the result, which is call-scoped: nothing of a
\* call is kept by the programs.  prev is a history variable: the arguments
\* and the total of the last call of calculate_bracket_tax.
Discard ==
    /\ call # NoCall
    /\ prev' = IF call.fn = "calculate_bracket_tax"
               THEN [ fn |-> call.fn, taxable_income |-> call.taxable_income,
                      brackets |-> call.brackets, total |-> result.value.total ]
               ELSE prev
    /\ call' = NoCall
    /\ result' = NoResult
    /\ UNCHANGED <<TAX_DATA, first, shell>>

Next ==
    \/ Call_calculate_federal_tax
    \/ Call_calculate_state_tax
    \/ Call_calculate_total_tax
    \/ Call_calculate_taxes
    \/ Call_calculate_bracket_tax
    \/ Discard

Spec == Init /\ [][Next]_vars

\* The runs in which the first call is remembered.  first is a history
\* variable: the first call of the run and its result, when Kept.
Forget ==
    /\ call # NoCall
    /\ first' = IF first # NoFirst THEN first
                ELSE IF Kept(call)
                THEN [ made |-> "kept", call |-> call, result |-> result ]
                ELSE [ made |-> "other" ]
    /\ call' = NoCall
    /\ result' = NoResult
    /\ UNCHANGED <<TAX_DATA, prev, shell>>

NextHistory ==
    \/ Call_calculate_federal_tax
    \/ Call_calculate_state_tax
    \/ Call_calculate_total_tax
    \/ Call_calculate_bracket_tax
    \/ Forget

SpecHistory == Init /\ [][NextHistory]_vars

----------------------------------------------------------------------------
(* The interactive loops: run_tax_calculator of General-use-2025.py and the *)
(* __main__ block of Federal-2025.py.  A step is an input() and what the    *)
(* loop does with the entry up to the next input().  In these runs call and *)
(* result are the engine call made in the last step and its outcome, and    *)
(* shell holds the locals of the loop, the prompt it waits at (pc), what    *)
(* the last step printed (out), and the incomes entered in the scenario.    *)

\* a local that no statement has assigned yet
Unbound == "unbound"

\* the largest number typed at the prompt of the jurisdiction: one more
\* than the options offered
MaxChoice == 16

\* the strings of digits typed, with the number each writes
ChoiceNumbers ==
    [ choice \in { ToString(i) : i \in 0..MaxChoice } |->
        CHOOSE i \in 0..MaxChoice : ToString(i) = choice ]

\* the entries typed at the prompt of the jurisdiction
ChoiceEntries == { "q", "Q", "abc", "" } \cup DOMAIN ChoiceNumbers

\* int(choice): the number a string of digits writes, or ValueError
int(choice) ==
    IF choice \in DOMAIN ChoiceNumbers
    THEN Return(ChoiceNumbers[choice])
    ELSE Raise("ValueError", "invalid literal for int()")

\* the entries typed at a prompt of an income, with the float each writes
FloatEntries ==
    ( "0" :> 0 @@ "-0.0" :> 0 @@ "50000" :> 50000 @@ "1e5" :> 100000
   @@ "176100" :> 176100 @@ "-5" :> -5 @@ "-1000" :> -1000 @@ "nan" :> nan )

IncomeEntries == DOMAIN FloatEntries \cup { "abc", "" }

\* float(entry): the float the string writes, or ValueError
float(entry) ==
    IF entry \in DOMAIN FloatEntries
    THEN Return(FloatEntries[entry])
    ELSE Raise("ValueError", "could not convert string to float")

StatusEntries == { "1", "2", "3", "" }
SelectionEntries == { "1", "2", "3", "q", "Q", "" }
AgainEntries == { "y", "Y", "n", "" }

\* the prompt a loop starts each iteration with
FirstPrompt(prog) == IF prog = "General-use-2025" THEN "choice" ELSE "selection"

InitShell ==
    /\ TAX_DATA = TAX_DATA_INIT
    /\ call = NoCall
    /\ result = NoResult
    /\ prev = NoCall
    /\ first = NoFirst
    /\ \E prog \in { "General-use-2025", "Federal-2025" } :
         shell = [ prog |-> prog, pc |-> FirstPrompt(prog), out |-> "banner",
                   state_code |-> Unbound, filing_status |-> Unbound,
                   income1 |-> Unbound, income2 |-> Unbound,
                   entered |-> <<>>, complete |-> FALSE ]

\* a step that calls no engine function; the iteration goes on at prompt pc
\* ("continue" and the except clauses go to the first prompt)
NoEngineStep(locals, pc, out) ==
    /\ shell' = [ locals EXCEPT !.pc = pc, !.out = out ]
    /\ call' = NoCall
    /\ result' = NoResult
    /\ UNCHANGED <<TAX_DATA, prev, first>>

\* an income where the engine computes on it
Finite(income) == IF income = nan THEN 0 ELSE income

\* calculate_total_tax on the floats the shell passes
calculate_total_tax_float(income1, income2, filing_status, state_code) ==
    IF income1 = nan \/ income2 = nan
    THEN calculate_total_tax_nan(income1, income2, filing_status, state_code)
    ELSE calculate_total_tax(income1, income2, filing_status, state_code)

\* calculate_taxes on the floats the shell passes
calculate_taxes_float(income1, income2, filing_status) ==
    IF income1 = nan \/ income2 = nan
    THEN calculate_taxes_nan(income1, income2, filing_status)
    ELSE calculate_taxes(income1, income2, filing_status)

\* the keys display_tax_info subscripts the result of calculate_taxes with
tax_info_keys_read(tax_info) ==
    { "filing_status", "effective_tax_rate", "gross_income", "standard_deduction",
      "taxable_income", "bracket_breakdown", "income_tax", "social_security_tax",
      "medicare_tax", "total_tax", "take_home_pay" }
      \cup (IF tax_info.filing_status = "joint"
            THEN { "spouse1_income", "spouse2_income", "ss_tax_spouse1",
                   "ss_tax_spouse2", "mc_tax_spouse1", "mc_tax_spouse2" }
            ELSE {})

\* display_tax_info: the report printed, or the KeyError of a subscript
display_tax_info(tax_info) ==
    IF /\ tax_info_keys_read(tax_info) \subseteq DOMAIN tax_info
       /\ \A i \in 1..Len(tax_info.bracket_breakdown) :
            { "bracket", "rate", "income_in_bracket", "tax_for_bracket" }
                \subseteq DOMAIN tax_info.bracket_breakdown[i]
    THEN Return("None")
    ELSE Raise("KeyError", "key")

\* run_tax_calculator from "# Calculate and display taxes" to the next
\* input(): calculate_total_tax called, tax_results being what it returns
\* or raises, and the report displayed; an exception of either is caught by
\* the except clauses of the loop
Report(locals, tax_results) ==
        /\ call' = [ fn |-> "calculate_total_tax", income1 |-> locals.income1,
                     income2 |-> locals.income2,
                     filing_status |-> locals.filing_status,
                     state_code |-> locals.state_code ]
        /\ result' = tax_results
        /\ TAX_DATA' = total_tax_tables(Finite(locals.income1), Finite(locals.income2),
                                        locals.filing_status, locals.state_code)
        /\ shell' = IF tax_results.ok /\ display_tax_report(tax_results.value).ok
                    THEN [ locals EXCEPT !.pc = "again", !.out = "report" ]
                    ELSE [ locals EXCEPT !.pc = "choice", !.out = "error" ]
        /\ UNCHANGED <<prev, first>>

\* "if income1 < 0 or income2 < 0: ... continue", or the engine called
Calculate(locals) ==
    IF lt(locals.income1, 0) \/ lt(locals.income2, 0)
    THEN NoEngineStep(locals, "choice", "negative")
    ELSE Report(locals,
                calculate_total_tax_float(locals.income1, locals.income2,
                                          locals.filing_status, locals.state_code))

\* "Enter your choice (number or q)"
G_choice ==
    /\ shell.prog = "General-use-2025"
    /\ shell.pc = "choice"
    /\ LET state_options == get_state_options
       IN
       \E entry \in ChoiceEntries :
         LET choice == lower(entry)
             locals == [ shell EXCEPT !.entered = <<>>, !.complete = FALSE ]
         IN  IF choice = "q"
             THEN NoEngineStep(locals, "exit", "thanks")
             ELSE IF ~int(choice).ok
             THEN NoEngineStep(locals, "choice", "invalid")
             ELSE LET index == int(choice).value - 1
                  IN  IF index < 0 \/ index >= Len(state_options)
                      THEN NoEngineStep(locals, "choice", "invalid")
                      ELSE NoEngineStep(
                               [ locals EXCEPT !.state_code = state_options[index + 1][1] ],
                               "status", "prompt")

\* "Enter your choice (1/2)"
G_status ==
    /\ shell.prog = "General-use-2025"
    /\ shell.pc = "status"
    /\ \E status_choice \in StatusEntries :
         LET locals == [ shell EXCEPT !.entered = <<>>, !.complete = FALSE ]
         IN  IF status_choice = "1"
             THEN NoEngineStep([ locals EXCEPT !.filing_status = "single" ],
                               "income1", "prompt")
             ELSE IF status_choice = "2"
             THEN NoEngineStep([ locals EXCEPT !.filing_status = "joint" ],
                               "income1", "prompt")
             ELSE NoEngineStep(locals, "choice", "invalid")

\* "Enter your income" or "Enter primary income"
G_income1 ==
    /\ shell.prog = "General-use-2025"
    /\ shell.pc = "income1"
    /\ \E entry \in IncomeEntries :
         LET income1 == float(entry)
         IN  IF ~income1.ok
             THEN NoEngineStep(shell, "choice", "error")
             ELSE IF shell.filing_status = "single"
             THEN Calculate([ shell EXCEPT !.income1 = income1.value, !.income2 = 0,
                                           !.entered = <<income1.value>>,
                                           !.complete = TRUE ])
             ELSE NoEngineStep([ shell EXCEPT !.income1 = income1.value,
                                              !.entered = <<income1.value>> ],
                               "income2", "prompt")

\* "Enter secondary income"
G_income2 ==
    /\ shell.prog = "General-use-2025"
    /\ shell.pc = "income2"
    /\ \E entry \in IncomeEntries :
         LET income2 == float(entry)
         IN  IF ~income2.ok
             THEN NoEngineStep(shell, "choice", "error")
             ELSE Calculate([ shell EXCEPT !.income2 = income2.value,
                                           !.entered = Append(@, income2.value),
                                           !.complete = TRUE ])

\* "Calculate another scenario? (y/n)"
G_again ==
    /\ shell.prog = "General-use-2025"
    /\ shell.pc = "again"
    /\ \E entry \in AgainEntries :
         LET again == lower(entry)
             locals == [ shell EXCEPT !.entered = <<>>, !.complete = FALSE ]
         IN  IF again # "y"
             THEN NoEngineStep(locals, "exit", "thanks")
             ELSE NoEngineStep(locals, "choice", "prompt")

\* Federal-2025.py from the call of calculate_taxes to the next input():
\* tax_info is what it returns or raises, display_tax_info comes after it
ReportFederal(locals, income2, tax_info) ==
        /\ call' = [ fn |-> "calculate_taxes", income1 |-> locals.income1,
                     income2 |-> income2,
                     filing_status |-> locals.filing_status ]
        /\ result' = tax_info
        /\ shell' = IF tax_info.ok /\ display_tax_info(tax_info.value).ok
                    THEN [ locals EXCEPT !.pc = "selection", !.out = "report" ]
                    ELSE [ locals EXCEPT !.pc = "selection", !.out = "error" ]
        /\ UNCHANGED <<TAX_DATA, prev, first>>

\* the test of the incomes and "continue", or the engine called
CalculateFederal(locals, income2) ==
    IF lt(locals.income1, 0) \/ lt(income2, 0)
    THEN NoEngineStep(locals, "selection", "negative")
    ELSE ReportFederal(locals, income2,
                       calculate_taxes_float(locals.income1, income2,
                                             locals.filing_status))

\* "Enter your choice (1/2/q)"
F_selection ==
    /\ shell.prog = "Federal-2025"
    /\ shell.pc = "selection"
    /\ \E entry \in SelectionEntries :
         LET selection == lower(entry)
             locals == [ shell EXCEPT !.entered = <<>>, !.complete = FALSE ]
         IN  IF selection = "q"
             THEN NoEngineStep(locals, "exit", "none")
             ELSE IF selection = "1"
             THEN NoEngineStep([ locals EXCEPT !.filing_status = "single" ],
                               "income1", "prompt")
             ELSE IF selection = "2"
             THEN NoEngineStep([ locals EXCEPT !.filing_status = "joint" ],
                               "income1", "prompt")
             ELSE NoEngineStep(locals, "selection", "invalid")

\* "Enter your income" or "Enter first spouse's income"; the single branch
\* tests income1 alone and leaves income2 to the default of calculate_taxes
F_income1 ==
    /\ shell.prog = "Federal-2025"
    /\ shell.pc = "income1"
    /\ \E entry \in IncomeEntries :
         LET income1 == float(entry)
         IN  IF ~income1.ok
             THEN NoEngineStep(shell, "selection", "error")
             ELSE IF shell.filing_status = "single"
             THEN CalculateFederal([ shell EXCEPT !.income1 = income1.value,
                                                  !.entered = <<income1.value>>,
                                                  !.complete = TRUE ], 0)
             ELSE NoEngineStep([ shell EXCEPT !.income1 = income1.value,
                                              !.entered = <<income1.value>> ],
                               "income2", "prompt")

\* "Enter second spouse's income"
F_income2 ==
    /\ shell.prog = "Federal-2025"
    /\ shell.pc = "income2"
    /\ \E entry \in IncomeEntries :
         LET income2 == float(entry)
         IN  IF ~income2.ok
             THEN NoEngineStep(shell, "selection", "error")
             ELSE CalculateFederal([ shell EXCEPT !.income2 = income2.value,
                                                  !.entered = Append(@, income2.value),
                                                  !.complete = TRUE ],
                                   income2.value)

NextShell ==
    \/ G_choice
    \/ G_status
    \/ G_income1
    \/ G_income2
    \/ G_again
    \/ F_selection
    \/ F_income1
    \/ F_income2

SpecShell == InitShell /\ [][NextShell]_vars

----------------------------------------------------------------------------
(* Properties *)

\* the calls that take the filing status, and those that take a jurisdiction
FilingCalls == { "calculate_federal_tax", "calculate_state_tax",
                 "calculate_total_tax", "calculate_taxes" }
StateCalls == { "calculate_state_tax", "calculate_total_tax" }

\* the outcome of the call of fn with the arguments of c
Outcome(c) ==
    CASE c.fn = "calculate_federal_tax" ->
            calculate_federal_tax(c.income1, c.income2, c.filing_status)
      [] c.fn = "calculate_state_tax" ->
            calculate_state_tax(c.income1, c.income2, c.filing_status, c.state_code)
      [] c.fn = "calculate_total_tax" ->
            calculate_total_tax(c.income1, c.income2, c.filing_status, c.state_code)
      [] c.fn = "calculate_taxes" ->
            calculate_taxes(c.income1, c.income2, c.filing_status)

\* the amounts of a returned dict: gross income, taxable income, income tax,
\* Social Security, Medicare, state tax, total tax, take-home
FederalFigures(d) ==
    << d.gross_income, d.taxable_income, d.income_tax,
       d.social_security.tax, d.medicare.tax, d.total_tax >>

Figures(fn, r) ==
    IF ~r.ok THEN <<r.error, r.message>>
    ELSE CASE fn = "calculate_federal_tax" -> FederalFigures(r.value)
           [] fn = "calculate_state_tax" -> <<r.value.tax>>
           [] fn = "calculate_total_tax" ->
                FederalFigures(r.value.federal) \o
                << r.value.state.tax, r.value.total_tax,
                   r.value.total_income, r.value.take_home >>
           [] fn = "calculate_taxes" ->
                << r.value.gross_income, r.value.taxable_income,
                   r.value.income_tax, r.value.social_security_tax,
                   r.value.medicare_tax, r.value.total_tax,
                   r.value.take_home_pay >>

NonNegativeIncomes == call.income1 >= 0 /\ call.income2 >= 0

\* C1: for filing status single a second income is ignored: every call with
\* income1 >= 0 and a second income returns the amounts (gross, taxable,
\* income tax, Social Security, Medicare, state tax, total tax, take-home) of
\* the same call with income2 = 0.  Stated for second incomes >= 0, so that
\* no negative income has a part in it.
C1_SecondIncomeIgnored ==
    ( /\ call.fn \in FilingCalls
      /\ call.filing_status = "single"
      /\ NonNegativeIncomes )
    => Figures(call.fn, result)
         = Figures(call.fn, Outcome([call EXCEPT !.income2 = 0]))

\* C2: a jurisdiction code that is non-empty, not a no-tax state and not a
\* jurisdiction entry (in any letter case) fails with ValueError
\* "Unsupported state", and with nothing else, whatever the incomes (here
\* those >= 0) and the filing status.
JurisdictionEntries ==
    { "michigan", "pennsylvania", "pennsylvania-philadelphia",
      "pennsylvania-pittsburgh", "minnesota" }

C2_UnsupportedState ==
    ( /\ call.fn \in StateCalls
      /\ call.fn = "calculate_total_tax" => call.filing_status \in {"single", "joint"}
      /\ NonNegativeIncomes
      /\ call.state_code # ""
      /\ ~InList(lower(call.state_code), NO_TAX_STATES)
      /\ lower(call.state_code) \notin JurisdictionEntries )
    => result = Raise("ValueError", "Unsupported state")

\* C3: a call in which a supplied income is negative fails with an error and
\* returns no tax result.
C3_NegativeIncomeRejected ==
    ( /\ call.fn \in FilingCalls
      /\ (call.income1 < 0 \/ call.income2 < 0) )
    => ~result.ok

\* the federal dict of a call that returned one, whichever the entry point,
\* as [gross, taxable, income_tax, ss, medicare]
FederalCalls == { "calculate_federal_tax", "calculate_total_tax", "calculate_taxes" }

FederalPart ==
    CASE call.fn = "calculate_federal_tax" ->
            [ gross |-> result.value.gross_income,
              taxable |-> result.value.taxable_income,
              income_tax |-> result.value.income_tax,
              ss |-> result.value.social_security.tax,
              medicare |-> result.value.medicare.tax ]
      [] call.fn = "calculate_total_tax" ->
            [ gross |-> result.value.federal.gross_income,
              taxable |-> result.value.federal.taxable_income,
              income_tax |-> result.value.federal.income_tax,
              ss |-> result.value.federal.social_security.tax,
              medicare |-> result.value.federal.medicare.tax ]
      [] call.fn = "calculate_taxes" ->
            [ gross |-> result.value.gross_income,
              taxable |-> result.value.taxable_income,
              income_tax |-> result.value.income_tax,
              ss |-> result.value.social_security_tax,
              medicare |-> result.value.medicare_tax ]

\* C4: Social Security is capped per earner: for joint filing with incomes
\* i1, i2 >= 0 the Social Security total is 6.2% of min(i1, 176100) plus
\* 6.2% of min(i2, 176100), in calculate_federal_tax and in calculate_taxes.
C4_SocialSecurityPerEarner ==
    ( /\ call.fn \in FederalCalls
      /\ call.filing_status = "joint"
      /\ NonNegativeIncomes
      /\ result.ok )
    => FederalPart.ss = Times(min(call.income1, 176100), 620)
                          + Times(min(call.income2, 176100), 620)

\* two earners each at or below the cap whose incomes together exceed it pay
\* on the sum of their incomes
C4_Witness ==
    /\ call.fn = "calculate_federal_tax"
    /\ call.filing_status = "joint"
    /\ call.income1 > 0 /\ call.income1 <= 176100
    /\ call.income2 > 0 /\ call.income2 <= 176100
    /\ call.income1 + call.income2 > 176100
    /\ result.ok
    /\ result.value.social_security.tax = Times(call.income1 + call.income2, 620)

\* C5: payroll tax is computed on gross income: for a valid filing status
\* and incomes >= 0 Medicare is 1.45% of the gross income, with no cap, and
\* where the gross income is at or below the standard deduction (taxable
\* income 0, income tax 0) Social Security and Medicare are still the full
\* 6.2% and 1.45% of the gross income.
C5_PayrollOnGross ==
    ( /\ call.fn \in FederalCalls
      /\ NonNegativeIncomes
      /\ result.ok )
    => /\ FederalPart.medicare = Times(FederalPart.gross, 145)
       /\ FederalPart.taxable = 0
            => /\ FederalPart.income_tax = 0
               /\ FederalPart.ss = Times(FederalPart.gross, 620)

\* a gross income below the standard deduction that pays payroll taxes
C5_Witness ==
    /\ call.fn = "calculate_taxes"
    /\ NonNegativeIncomes
    /\ result.ok
    /\ result.value.gross_income > 0
    /\ result.value.gross_income < result.value.standard_deduction
    /\ result.value.taxable_income = 0
    /\ result.value.medicare_tax > 0
    /\ result.value.social_security_tax > 0

\* C6: the filing status is validated first: a call of calculate_total_tax,
\* calculate_federal_tax or calculate_taxes with a filing status other than
\* single and joint fails with "Invalid filing status", whatever the incomes
\* and the jurisdiction code, and produces no result.
C6_FilingStatusFirst ==
    ( /\ call.fn \in FederalCalls
      /\ call.filing_status \notin {"single", "joint"} )
    => result = Raise("ValueError", "Invalid filing status")

\* an invalid filing status together with an unsupported jurisdiction code
C6_Witness ==
    /\ call.fn = "calculate_total_tax"
    /\ call.filing_status \notin {"single", "joint"}
    /\ call.state_code = "foo"
    /\ calculate_state_tax(call.income1, call.income2, "single", call.state_code)
         = Raise("ValueError", "Unsupported state")
    /\ result = Raise("ValueError", "Invalid filing status")

\* the calls that return a bracket breakdown, and what they return: the
\* taxable income I, the table, the total, and of each entry the bracket
\* printed, the income and the tax
BreakdownCalls == { "calculate_bracket_tax", "calculate_federal_tax",
                    "calculate_taxes" }

Breakdown ==
    CASE call.fn = "calculate_bracket_tax" ->
            [ I |-> call.taxable_income,
              brackets |-> call.brackets,
              total |-> result.value.total,
              entries |-> result.value.breakdown ]
      [] call.fn = "calculate_federal_tax" ->
            [ I |-> result.value.taxable_income,
              brackets |-> IF call.filing_status = "single"
                           THEN FEDERAL_SINGLE_BRACKETS ELSE FEDERAL_JOINT_BRACKETS,
              total |-> result.value.income_tax,
              entries |-> result.value.bracket_breakdown ]
      [] call.fn = "calculate_taxes" ->
            [ I |-> result.value.taxable_income,
              brackets |-> IF call.filing_status = "single"
                           THEN FEDERAL_SINGLE_BRACKETS ELSE FEDERAL_JOINT_BRACKETS,
              total |-> result.value.income_tax,
              entries |-> [ i \in DOMAIN result.value.bracket_breakdown |->
                             LET e == result.value.bracket_breakdown[i]
                             IN  [ bracket |-> e.bracket,
                                   income |-> e.income_in_bracket,
                                   tax |-> e.tax_for_bracket ] ] ]

Width(brackets, i) == brackets[i][2] - brackets[i][1]

\* the tax of brackets 1..k taken whole
RECURSIVE FullTax(_, _)
FullTax(brackets, k) ==
    IF k = 0 THEN 0
    ELSE FullTax(brackets, k - 1) + Times(Width(brackets, k), brackets[k][3])

RECURSIVE SumIncome(_, _)
SumIncome(entries, n) ==
    IF n = 0 THEN 0 ELSE SumIncome(entries, n - 1) + entries[n].income

RECURSIVE SumTax(_, _)
SumTax(entries, n) ==
    IF n = 0 THEN 0 ELSE SumTax(entries, n - 1) + entries[n].tax

\* C7: an income on a bracket bound belongs to the lower bracket: when the
\* taxable income is the upper bound of bracket k, the last entry of the
\* breakdown is bracket k with its whole width, there is no entry for
\* bracket k+1, and the total is the sum of the whole taxes of brackets 1..k.
C7_BoundaryInLowerBracket ==
    ( call.fn \in BreakdownCalls /\ result.ok )
    => LET b == Breakdown
       IN  \A k \in 1..Len(b.brackets) :
             ( b.brackets[k][2] # inf /\ b.I = b.brackets[k][2] )
             => /\ Len(b.entries) = k
                /\ b.entries[k].bracket = <<b.brackets[k][1], b.brackets[k][2]>>
                /\ b.entries[k].income = Width(b.brackets, k)
                /\ b.total = FullTax(b.brackets, k)

\* a taxable income on the upper bound of the second bracket or a later one
C7_Witness ==
    /\ call.fn = "calculate_bracket_tax"
    /\ \E k \in 2..Len(call.brackets) :
         /\ call.taxable_income = call.brackets[k][2]
         /\ Len(result.value.breakdown) = k
         /\ result.value.breakdown[k].income = Width(call.brackets, k)

\* C8: no bracket is skipped or counted twice: the breakdown is brackets
\* 1..k of the table in order, k the bracket that contains the taxable
\* income I; every entry but the last has the whole width of its bracket,
\* every entry has an income > 0, and the incomes sum to I; for I = 0 the
\* breakdown is empty and the total 0.
C8_ContiguousPrefix ==
    ( call.fn \in BreakdownCalls /\ result.ok )
    => LET b == Breakdown
           n == Len(b.entries)
       IN  /\ n <= Len(b.brackets)
           /\ \A i \in 1..n :
                /\ b.entries[i].bracket
                     = IF b.brackets[i][2] # inf
                       THEN <<b.brackets[i][1], b.brackets[i][2]>>
                       ELSE <<b.brackets[i][1]>>
                /\ b.entries[i].income > 0
                /\ i < n => b.entries[i].income = Width(b.brackets, i)
           /\ SumIncome(b.entries, n) = b.I
           /\ b.I > 0 => /\ n >= 1
                         /\ b.brackets[n][1] < b.I
                         /\ b.I <= b.brackets[n][2]
           /\ b.I = 0 => n = 0 /\ b.total = 0

\* a taxable income inside the third bracket or a later one, off its bounds
C8_Witness ==
    /\ call.fn = "calculate_bracket_tax"
    /\ LET n == Len(result.value.breakdown)
       IN  /\ n >= 3
           /\ call.taxable_income < call.brackets[n][2]
           /\ result.value.breakdown[n].income > 0
           /\ result.value.breakdown[n].income < call.taxable_income
           /\ result.value.breakdown[n - 1].income = Width(call.brackets, n - 1)

\* C9: the total returned by calculate_bracket_tax is the sum of the taxes
\* of the breakdown entries, and the tax of each entry is its income times
\* the rate of its bracket.
C9_TotalIsSumOfBreakdown ==
    ( call.fn \in {"calculate_bracket_tax", "calculate_federal_tax"} /\ result.ok )
    => LET b == Breakdown
       IN  /\ b.total = SumTax(b.entries, Len(b.entries))
           /\ \A i \in 1..Len(b.entries) :
                b.entries[i].tax = Times(b.entries[i].income, b.brackets[i][3])

\* a total made of the taxes of several brackets
C9_Witness ==
    /\ call.fn = "calculate_bracket_tax"
    /\ Len(result.value.breakdown) >= 2
    /\ result.value.total
         > result.value.breakdown[Len(result.value.breakdown)].tax
    /\ result.value.total
         = SumTax(result.value.breakdown, Len(result.value.breakdown))

\* C10: the bracket tax does not decrease with the taxable income: of two
\* calls of calculate_bracket_tax on the same table, the one with the lower
\* taxable income returns the lower or the same total.
C10_Monotone ==
    ( /\ call.fn = "calculate_bracket_tax"
      /\ prev.fn = "calculate_bracket_tax"
      /\ prev.brackets = call.brackets )
    => /\ prev.taxable_income <= call.taxable_income
            => prev.total <= result.value.total
       /\ call.taxable_income <= prev.taxable_income
            => result.value.total <= prev.total

\* two calls with a bracket bound between their taxable incomes
C10_Witness ==
    /\ call.fn = "calculate_bracket_tax"
    /\ prev.fn = "calculate_bracket_tax"
    /\ prev.brackets = call.brackets
    /\ \E bound \in Bounds(call.brackets) :
         /\ prev.taxable_income > 0
         /\ prev.taxable_income < bound
         /\ bound < call.taxable_income
    /\ prev.total < result.value.total

\* the state dict of a call that returned one, whichever the entry point
StatePart ==
    IF call.fn = "calculate_total_tax" THEN result.value.state ELSE result.value

\* C11: for a bracket jurisdiction, calculate_state_tax called with any
\* filing status uses the profile of that status where the jurisdiction has
\* one and the single profile otherwise; it does not fail, and it taxes
\* max(0, total income - the profile's standard deduction) with the bracket
\* calculator on the profile's brackets.
C11_ProfileOrSingle ==
    ( /\ call.fn = "calculate_state_tax"
      /\ lower(call.state_code) = "minnesota"
      /\ NonNegativeIncomes )
    => /\ result.ok
       /\ LET minnesota == TAX_DATA_INIT.states["minnesota"]
              profile == IF call.filing_status \in {"single", "joint"}
                         THEN minnesota[call.filing_status] ELSE minnesota.single
              taxable == max(0, call.income1 + call.income2
                                  - profile.standard_deduction)
              tax == calculate_bracket_tax(taxable, profile.brackets)
          IN  /\ result.value.standard_deduction = profile.standard_deduction
              /\ result.value.taxable_income = taxable
              /\ result.value.tax = tax.total
              /\ result.value.bracket_breakdown = tax.breakdown

\* C12: a flat jurisdiction owes total income * rate + fee, a composite one
\* state portion + local portion + fee with both portions reported; the fee
\* is 0 where the jurisdiction defines none and is added at every total
\* income, 0 included: pennsylvania-pittsburgh owes 52 at income 0 and 4,908
\* at 80,000, michigan owes 6,800 at 160,000.
FlatRules ==
    ( "michigan" :> [rate |-> 425, fee |-> 0]
   @@ "pennsylvania" :> [rate |-> 307, fee |-> 0] )

CompositeRules ==
    ( "pennsylvania-philadelphia" :> [state |-> 307, local |-> 375, fee |-> 0]
   @@ "pennsylvania-pittsburgh" :> [state |-> 307, local |-> 300, fee |-> 52] )

C12_RatesPlusUnconditionalFee ==
    ( /\ call.fn \in StateCalls
      /\ NonNegativeIncomes
      /\ result.ok )
    => LET code == lower(call.state_code)
           total == call.income1 + call.income2
           st == StatePart
       IN  /\ code \in DOMAIN FlatRules
                => /\ st.tax = Times(total, FlatRules[code].rate)
                                 + Dollars(FlatRules[code].fee)
                   /\ st.flat_fee = FlatRules[code].fee
           /\ code \in DOMAIN CompositeRules
                => /\ st.state_portion = Times(total, CompositeRules[code].state)
                   /\ st.local_portion = Times(total, CompositeRules[code].local)
                   /\ st.tax = st.state_portion + st.local_portion
                                 + Dollars(CompositeRules[code].fee)
                   /\ st.flat_fee = CompositeRules[code].fee
           /\ (code = "pennsylvania-pittsburgh" /\ total = 0)
                => st.tax = Dollars(52)
           /\ (code = "pennsylvania-pittsburgh" /\ total = 80000)
                => st.tax = Dollars(4908)
           /\ (code = "michigan" /\ total = 160000)
                => st.tax = Dollars(6800)

\* the fee of pennsylvania-pittsburgh owed on a total income of 0
C12_Witness ==
    /\ call.fn = "calculate_state_tax"
    /\ call.state_code = "pennsylvania-pittsburgh"
    /\ call.income1 = 0 /\ call.income2 = 0
    /\ result.ok
    /\ result.value.state_portion = 0
    /\ result.value.tax = Dollars(52)

\* C15: every bracket table of the two programs partitions [0, infinity):
\* the first lower bound is 0, each lower bound is below its upper bound,
\* each upper bound is the next lower bound, the last upper bound is
\* unbounded, and every rate lies in [0, 1).
Partition(brackets) ==
    /\ Len(brackets) >= 1
    /\ brackets[1][1] = 0
    /\ brackets[Len(brackets)][2] = inf
    /\ \A i \in 1..Len(brackets) :
         /\ brackets[i][1] < brackets[i][2]
         /\ i < Len(brackets) => /\ brackets[i][2] # inf
                                 /\ brackets[i][2] = brackets[i + 1][1]
         /\ brackets[i][3] >= 0
         /\ brackets[i][3] < RateDen

C15_TablesPartition ==
    /\ Partition(TAX_DATA.federal.single.brackets)
    /\ Partition(TAX_DATA.federal.joint.brackets)
    /\ Partition(TAX_DATA.states["minnesota"].single.brackets)
    /\ Partition(TAX_DATA.states["minnesota"].joint.brackets)
    /\ Partition(TAX_CONSTANTS.single.brackets)
    /\ Partition(TAX_CONSTANTS.joint.brackets)

\* a state tax of minnesota, joint, that runs through all the brackets of
\* the table up to the unbounded one
C15_Witness ==
    /\ call.fn = "calculate_state_tax"
    /\ call.state_code = "minnesota"
    /\ call.filing_status = "joint"
    /\ result.ok
    /\ Len(result.value.bracket_breakdown)
         = Len(TAX_DATA.states["minnesota"].joint.brackets)
    /\ SumIncome(result.value.bracket_breakdown,
                 Len(result.value.bracket_breakdown))
         = result.value.taxable_income

\* C18: the two federal implementations agree: for single with income1 >= 0
\* and income2 = 0, and for joint with both incomes >= 0, calculate_taxes
\* and calculate_federal_tax return the same gross income, standard
\* deduction, taxable income, income tax, income and tax of each bracket,
\* Social Security total, Medicare total and total tax.
SameFederal(t, g) ==
    /\ t.ok /\ g.ok
    /\ t.value.gross_income = g.value.gross_income
    /\ t.value.standard_deduction = g.value.standard_deduction
    /\ t.value.taxable_income = g.value.taxable_income
    /\ t.value.income_tax = g.value.income_tax
    /\ Len(t.value.bracket_breakdown) = Len(g.value.bracket_breakdown)
    /\ \A i \in 1..Len(t.value.bracket_breakdown) :
         /\ t.value.bracket_breakdown[i].income_in_bracket
              = g.value.bracket_breakdown[i].income
         /\ t.value.bracket_breakdown[i].tax_for_bracket
              = g.value.bracket_breakdown[i].tax
    /\ t.value.social_security_tax = g.value.social_security.tax
    /\ t.value.medicare_tax = g.value.medicare.tax
    /\ t.value.total_tax = g.value.total_tax

C18_FederalImplementationsAgree ==
    ( /\ call.fn \in {"calculate_taxes", "calculate_federal_tax"}
      /\ \/ call.filing_status = "single" /\ call.income1 >= 0 /\ call.income2 = 0
         \/ call.filing_status = "joint" /\ NonNegativeIncomes )
    => IF call.fn = "calculate_taxes"
       THEN SameFederal(result,
               calculate_federal_tax(call.income1, call.income2, call.filing_status))
       ELSE SameFederal(
               calculate_taxes(call.income1, call.income2, call.filing_status),
               result)

\* a joint call of calculate_taxes with an income above the wage base limit
\* and a tax over several brackets
C18_Witness ==
    /\ call.fn = "calculate_taxes"
    /\ call.filing_status = "joint"
    /\ call.income1 > 176100 /\ call.income2 > 0
    /\ result.ok
    /\ Len(result.value.bracket_breakdown) >= 3
    /\ result.value.total_tax
         = calculate_federal_tax(call.income1, call.income2, "joint").value.total_tax

\* C19, as stated: take-home pay is never negative: for a valid filing
\* status, incomes >= 0 and an accepted jurisdiction code, calculate_total_tax
\* returns total_tax = federal total + state tax with
\* 0 <= total_tax <= total_income, so take_home >= 0.
C19_TakeHomeNonNegative ==
    ( /\ call.fn = "calculate_total_tax"
      /\ call.filing_status \in {"single", "joint"}
      /\ NonNegativeIncomes
      /\ result.ok )
    => /\ result.value.total_tax
            = result.value.federal.total_tax + result.value.state.tax
       /\ result.value.total_tax >= 0
       /\ result.value.total_tax <= Dollars(result.value.total_income)
       /\ result.value.take_home >= 0

\* C19, amended: the total tax exceeds the total income by no more than the
\* flat fee of the jurisdiction (52 for pennsylvania-pittsburgh, 0 for the
\* others): 0 <= total_tax <= total_income + fee and take_home >= -fee, with
\* take_home = total_income - total_tax.
FlatFeeOf(state_code) ==
    IF lower(state_code) = "pennsylvania-pittsburgh" THEN 52 ELSE 0

C19_TakeHomeAboveFee ==
    ( /\ call.fn = "calculate_total_tax"
      /\ call.filing_status \in {"single", "joint"}
      /\ NonNegativeIncomes
      /\ result.ok )
    => /\ result.value.total_tax
            = result.value.federal.total_tax + result.value.state.tax
       /\ result.value.total_tax >= 0
       /\ result.value.total_tax
            <= Dollars(result.value.total_income) + Dollars(FlatFeeOf(call.state_code))
       /\ result.value.take_home
            = Dollars(result.value.total_income) - result.value.total_tax
       /\ result.value.take_home >= 0 - Dollars(FlatFeeOf(call.state_code))

\* the fee owed on no income: a take-home pay of -52
C19_Witness ==
    /\ call.fn = "calculate_total_tax"
    /\ call.filing_status \in {"single", "joint"}
    /\ call.income1 = 0 /\ call.income2 = 0
    /\ result.ok
    /\ result.value.total_income = 0
    /\ result.value.total_tax = Dollars(52)
    /\ result.value.take_home = 0 - Dollars(52)

----------------------------------------------------------------------------
(* C13: the effective rate of a total income of zero *)

\* the income the effective rate of the call is taken on
TotalIncome(c) ==
    IF c.fn = "calculate_taxes" /\ c.filing_status = "single"
    THEN c.income1
    ELSE c.income1 + c.income2

\* a call with a valid filing status and, where it names a jurisdiction, an
\* accepted one
AcceptedCall(c) ==
    /\ c.fn \in {"calculate_federal_tax", "calculate_state_tax",
                 "calculate_total_tax", "calculate_taxes"}
    /\ c.filing_status \in {"single", "joint"}
    /\ c.fn \in {"calculate_state_tax", "calculate_total_tax"} =>
         \/ c.state_code = ""
         \/ InList(lower(c.state_code), NO_TAX_STATES)
         \/ lower(c.state_code) \in JurisdictionEntries

\* every effective rate the result reports
EffectiveRates(c, value) ==
    CASE c.fn = "calculate_taxes" -> {value.effective_tax_rate}
      [] c.fn = "calculate_total_tax" ->
           {value.effective_rate, value.federal.effective_rate,
            value.state.effective_rate}
      [] OTHER -> {value.effective_rate}

\* C13: when the total income is zero, every tax-computing function called
\* with a valid filing status and an accepted jurisdiction returns, no
\* division by zero is made, and each effective rate it reports is 0
C13_ZeroIncomeZeroRate ==
    (/\ call # NoCall
     /\ AcceptedCall(call)
     /\ NonNegativeIncomes
     /\ TotalIncome(call) = 0)
    => /\ result.ok
       /\ EffectiveRates(call, result.value) = {0}

\* a total income of zero taxed all the same: the fee of Pittsburgh
C13_Witness ==
    /\ call # NoCall
    /\ call.fn = "calculate_total_tax"
    /\ call.filing_status = "joint"
    /\ TotalIncome(call) = 0
    /\ result.ok
    /\ result.value.state.tax > 0
    /\ result.value.total_tax > 0
    /\ result.value.state.effective_rate = 0
    /\ result.value.effective_rate = 0

----------------------------------------------------------------------------
(* C14: the engine across a call history *)

\* C14: after any sequence of calls of calculate_total_tax,
\* calculate_federal_tax, calculate_state_tax and calculate_bracket_tax,
\* failing calls included, the TAX_DATA tables are those the program starts
\* with, and a call made with the arguments of the first call of the run
\* returns the result the first call returned
C14_PureAcrossHistory ==
    /\ TAX_DATA = TAX_DATA_INIT
    /\ (first.made = "kept" /\ call = first.call) => result = first.result

\* the first call of the run, one that reads the fee of an entry, made again
\* after other calls
C14_Witness ==
    /\ first.made = "kept"
    /\ call = first.call
    /\ call.state_code = "pennsylvania-pittsburgh"
    /\ result.ok
    /\ result = first.result
    /\ TAX_DATA = TAX_DATA_INIT

----------------------------------------------------------------------------
(* C16: the incomes the shells pass to the engine *)

\* income >= 0 on a float: False of nan
NonNegative(income) == income # nan /\ income >= 0

\* C16, first part: in every run of either loop, calculate_total_tax and
\* calculate_taxes are invoked only with incomes that are all >= 0
C16_EngineIncomesNonNegative ==
    call # NoCall => NonNegative(call.income1) /\ NonNegative(call.income2)

\* C16, second part: a scenario of which an entered income is negative goes
\* back to the first prompt of the loop with no engine call and no report
C16_NegativeEntryRejected ==
    (/\ shell.complete
     /\ \E i \in 1..Len(shell.entered) : lt(shell.entered[i], 0))
    => /\ shell.pc = FirstPrompt(shell.prog)
       /\ call = NoCall
       /\ shell.out = "negative"

\* C16: the shell validates non-negativity before calling the engine
C16_ValidatedBeforeEngine ==
    /\ C16_EngineIncomesNonNegative
    /\ C16_NegativeEntryRejected

----------------------------------------------------------------------------
(* C17: the shell of General-use-2025.py and the errors of the engine *)

\* the codes get_state_options offers
OfferedCodes ==
    LET options == get_state_options
    IN  { options[i][1] : i \in 1..Len(options) }

\* the empty code, each no-tax state, each jurisdiction entry
CodesToOffer ==
    {""} \cup { NO_TAX_STATES[i] : i \in 1..Len(NO_TAX_STATES) }
         \cup JurisdictionEntries

\* the engine call of the last step, made by run_tax_calculator on incomes
\* that are numbers >= 0
ValidShellCall ==
    /\ shell.prog = "General-use-2025"
    /\ call # NoCall
    /\ NonNegative(call.income1)
    /\ NonNegative(call.income2)

\* C17: get_state_options offers the empty code, each no-tax state and each
\* jurisdiction entry, never the key 'no_tax_states'; calculate_state_tax
\* accepts every code offered for both filing statuses; and in every run of
\* run_tax_calculator a call of calculate_total_tax on valid incomes returns
\* a result of which display_tax_report reads only keys that the returned
\* dictionaries contain, so that the report is printed
C17_ShellNeverDrivesEngineIntoError ==
    LET offered == OfferedCodes
    IN
    /\ offered = CodesToOffer
    /\ "no_tax_states" \notin offered
    /\ \A code \in offered, filing_status \in {"single", "joint"} :
         calculate_state_tax(50000, 0, filing_status, code).ok
    /\ ValidShellCall =>
         /\ call.state_code \in offered
         /\ calculate_state_tax(call.income1, call.income2,
                                call.filing_status, call.state_code).ok
         /\ result.ok
         /\ ReadsPresent(result.value)
         /\ shell.out = "report"
         /\ shell.pc = "again"

\* the report of a joint scenario printed for a no-tax state, whose result
\* has no tax type
C17_Witness ==
    /\ ValidShellCall
    /\ shell.out = "report"
    /\ call.filing_status = "joint"
    /\ call.income2 > 0
    /\ call.state_code = "new_hampshire"
    /\ "type" \notin DOMAIN result.value.state
    /\ result.value.state.state = "NEW_HAMPSHIRE"

====
